---- MODULE Spec2Model ----
(***************************************************************************)
(* Model of scripts/sync_precommit.py (hook scoping and subtree hook       *)
(* merge) and scripts/sync_pyproject.py (dependency reconciliation).       *)
(*                                                                         *)
(* Strings are sequences of one-character strings, so that prefixing,      *)
(* replacing and whitespace stripping are computed character by character. *)
(* A Python dict is a function whose DOMAIN is the set of keys present.    *)
(***************************************************************************)
EXTENDS Integers, Sequences, FiniteSets, TLC

VARIABLES
    \* ---- scope_hook / scope_local_hook applied to one hook ----
    sc_pc,        \* "idle" | "init" | "once" | "twice" | "raised"
    sc_hook,      \* the hook as written in the subtree's config
    sc_subtree,   \* the owning subtree path
    sc_local,     \* TRUE: scope_local_hook, FALSE: scope_hook(is_local=False)
    sc_once,      \* the hook after one scoping
    sc_twice,     \* the hook after the scoped hook is scoped again
    \* ---- sync_precommit.py: merge_configs + main ----
    pc,           \* "idle" | "start" | "subtree" | "blocks" | "returned" | "done" | "raised"
    manifest,     \* subtrees.yaml: [exists, subtrees]
    configs,      \* per subtree, [exists, repos]: whether config_path exists, the blocks iterated so far
    i,            \* index of the subtree the outer loop is at
    merged_repos, \* merge_configs' merged_repos
    local_hooks,  \* merge_configs' local_hooks
    merged,       \* the value merge_configs returned
    wsConfig,     \* <workspace>/.pre-commit-config.yaml
    wsBefore,     \* <workspace>/.pre-commit-config.yaml as it was before the run
    \* ---- sync_pyproject.py ----
    py_pc,        \* "idle" | "ready" | "noop" | "written" | "raised"
    py_manifest,  \* subtrees.yaml as sync_pyproject reads it
    pyproject,    \* <workspace>/pyproject.toml
    py_prev,      \* pyproject.toml as it was when the last run started
    py_runs       \* number of sync_pyproject runs so far

scVars == <<sc_pc, sc_hook, sc_subtree, sc_local, sc_once, sc_twice>>
mgVars == <<pc, manifest, configs, i, merged_repos, local_hooks, merged, wsConfig, wsBefore>>
pyVars == <<py_pc, py_manifest, pyproject, py_prev, py_runs>>
vars == <<scVars, mgVars, pyVars>>

----------------------------------------------------------------------------
(* Strings and dicts *)

Absent == <<"ABSENT">>
Whitespace == {" ", "\t", "\n"}

Get(d, k, default) == IF k \in DOMAIN d THEN d[k] ELSE default
Put(d, k, v) == [x \in (DOMAIN d) \cup {k} |-> IF x = k THEN v ELSE d[x]]
MkDict(r) == [k \in {x \in DOMAIN r : r[x] # Absent} |-> r[k]]

StartsWith(s, p) == Len(s) >= Len(p) /\ SubSeq(s, 1, Len(p)) = p
Contains(s, p) == \E k \in 1..(Len(s) - Len(p) + 1) : SubSeq(s, k, k + Len(p) - 1) = p

RECURSIVE Replace(_, _, _)
Replace(s, p, r) ==
    IF Len(s) < Len(p) THEN s
    ELSE IF SubSeq(s, 1, Len(p)) = p
         THEN r \o Replace(SubSeq(s, Len(p) + 1, Len(s)), p, r)
         ELSE <<s[1]>> \o Replace(Tail(s), p, r)

IsWs(c) == c \in Whitespace
StripWs(s) == SelectSeq(s, LAMBDA c : ~IsWs(c))

VerboseMarker == <<"(", "?", "x", ")">>
LocalRepo == <<"l", "o", "c", "a", "l">>
ScriptLang == <<"s", "c", "r", "i", "p", "t">>
SystemLang == <<"s", "y", "s">>
DefaultRev == <<"m", "a", "i", "n">>

----------------------------------------------------------------------------
(* scope_hook, scope_local_hook *)

\* mutant: a hook without a files pattern is left unscoped
ScopeFiles_Unanchored(hook, subtree) ==
    LET existing == Get(hook, "files", <<>>)
    IN IF existing # <<>>
       THEN <<"^">> \o subtree \o <<"/", "(">> \o existing \o <<")">>
       ELSE existing

ScopeFiles(hook, subtree) ==
    LET existing == Get(hook, "files", <<>>)
    IN IF existing # <<>>
       THEN <<"^">> \o subtree \o <<"/", "(">> \o existing \o <<")">>
       ELSE <<"^">> \o subtree \o <<"/">>

ScopeExclude(exclude0, subtree) ==
    LET exclude == IF Contains(exclude0, VerboseMarker)
                   THEN StripWs(Replace(exclude0, VerboseMarker, <<>>))
                   ELSE exclude0
    IN IF StartsWith(exclude, <<"^">>)
       THEN <<"^">> \o subtree \o <<"/">> \o Tail(exclude)
       ELSE <<"^">> \o subtree \o <<"/", "(">> \o exclude \o <<")">>

ScopeRaises(hook) == "id" \notin DOMAIN hook

ScopeId(hook, subtree, is_local) ==
    IF is_local
    THEN LET h == Put(hook, "id", subtree \o <<"-">> \o hook["id"])
         IN IF "alias" \in DOMAIN h
            THEN Put(h, "alias", subtree \o <<"-">> \o h["alias"])
            ELSE h
    ELSE Put(hook, "alias", subtree \o <<"-">> \o hook["id"])

ScopeName(hook, subtree) ==
    <<"[">> \o subtree \o <<"]", " ">> \o Get(hook, "name", hook["id"])

scope_hook(hook, subtree, is_local) ==
    LET h1 == Put(hook, "files", ScopeFiles(hook, subtree))
        h2 == IF "exclude" \in DOMAIN h1
              THEN Put(h1, "exclude", ScopeExclude(h1["exclude"], subtree))
              ELSE h1
        h3 == ScopeId(h2, subtree, is_local)
    IN Put(h3, "name", ScopeName(h3, subtree))

scope_local_hook(hook0, subtree) ==
    LET hook == scope_hook(hook0, subtree, TRUE)
    IN IF Get(hook, "language", <<>>) = ScriptLang /\ "entry" \in DOMAIN hook
       THEN Put(hook, "entry", subtree \o <<"/">> \o hook["entry"])
       ELSE hook

\* what merge_configs applies to a hook of a local / remote block
ScopeAs(hook, subtree, is_local) ==
    IF is_local THEN scope_local_hook(hook, subtree) ELSE scope_hook(hook, subtree, FALSE)

----------------------------------------------------------------------------
(* Scoping one hook, then scoping the scoped hook again under the same     *)
(* subtree with the same local/remote flag.                                *)

SubtreeA == <<"a">>
SubtreeAB == <<"a", "-", "b">>
SubtreeTL == <<"t", "/", "l">>

IdC == <<"c">>
IdBC == <<"b", "-", "c">>

ScopeHooks ==
    { MkDict(r) : r \in
        [ id       : {Absent, IdC, IdBC},
          name     : {Absent, <<"n">>},
          files    : {Absent, <<>>, <<"x">>},
          exclude  : {Absent, <<"^", "y", "$">>, <<"y">>,
                      <<"(", "?", "x", ")", " ", "^", " ", "y", " ", "$">>,
                      <<"(", "?", "x", ")", " ", "y", " ", "|", " ", "z">>},
          language : {Absent, ScriptLang, SystemLang},
          entry    : {Absent, <<"e">>},
          alias    : {Absent, <<"k">>} ] }

ScInit ==
    /\ sc_pc = "init"
    /\ sc_hook \in ScopeHooks
    /\ sc_subtree \in {SubtreeA, SubtreeTL}
    /\ sc_local \in BOOLEAN
    /\ sc_once = <<>>
    /\ sc_twice = <<>>

ScIdle ==
    /\ sc_pc = "idle"
    /\ sc_hook = <<>>
    /\ sc_subtree = <<>>
    /\ sc_local = FALSE
    /\ sc_once = <<>>
    /\ sc_twice = <<>>

\* scope_hook raises KeyError: the hook has no 'id'
ScopeFail ==
    /\ sc_pc = "init"
    /\ ScopeRaises(sc_hook)
    /\ sc_pc' = "raised"
    /\ UNCHANGED <<sc_hook, sc_subtree, sc_local, sc_once, sc_twice>>

ScopeOnce ==
    /\ sc_pc = "init"
    /\ ~ScopeRaises(sc_hook)
    /\ sc_once' = ScopeAs(sc_hook, sc_subtree, sc_local)
    /\ sc_pc' = "once"
    /\ UNCHANGED <<sc_hook, sc_subtree, sc_local, sc_twice>>

ScopeTwice ==
    /\ sc_pc = "once"
    /\ sc_twice' = ScopeAs(sc_once, sc_subtree, sc_local)
    /\ sc_pc' = "twice"
    /\ UNCHANGED <<sc_hook, sc_subtree, sc_local, sc_once>>

ScNext ==
    \/ ScopeFail /\ UNCHANGED <<mgVars, pyVars>>
    \/ ScopeOnce /\ UNCHANGED <<mgVars, pyVars>>
    \/ ScopeTwice /\ UNCHANGED <<mgVars, pyVars>>

----------------------------------------------------------------------------
(* sync_precommit.py: merge_configs and main.  The manifest is read at the *)
(* start; each subtree's config is read when the loop reaches it, and      *)
(* `configs` records what was read.                                        *)

MaxSubtrees == 2
MaxBlocks == 2
MaxHooks == 2

RemoteR == <<"r">>
Rev1 == <<"1">>

MergePaths == {SubtreeA, SubtreeAB, SubtreeTL}

MergeHooks ==
    { [id |-> IdC],
      [id |-> IdBC, files |-> <<"x">>],
      [files |-> <<>>, name |-> <<"n">>] }

UniqueSeqs(S, n) ==
    { s \in UNION { [1..k -> S] : k \in 0..n } :
        \A a, b \in 1..Len(s) : a # b => s[a] # s[b] }

Manifests ==
    { [exists |-> FALSE, subtrees |-> <<>>] } \cup
    { [exists |-> TRUE, subtrees |-> [k \in 1..Len(ps) |-> [path |-> ps[k], install |-> FALSE]]] :
        ps \in UniqueSeqs(MergePaths, MaxSubtrees) }

HookLists(n) == UNION { [1..k -> MergeHooks] : k \in 0..n }

Blocks(n) ==
    { [rev |-> Rev1, hooks |-> <<>>] } \cup
    { [repo |-> RemoteR] } \cup
    { [repo |-> LocalRepo, hooks |-> h] : h \in HookLists(n) } \cup
    { [repo |-> RemoteR, rev |-> Rev1, hooks |-> h] : h \in HookLists(n) }

RECURSIVE SumSeq(_)
SumSeq(s) == IF s = <<>> THEN 0 ELSE Head(s) + SumSeq(Tail(s))

HooksOf(repo) == Get(repo, "hooks", <<>>)
BlocksRead == SumSeq([k \in 1..Len(configs) |-> Len(configs[k].repos)])
HooksRead ==
    SumSeq([k \in 1..Len(configs) |->
        SumSeq([b \in 1..Len(configs[k].repos) |-> Len(HooksOf(configs[k].repos[b]))])])

NoFile == [exists |-> FALSE, header |-> FALSE, doc |-> [repos |-> <<>>]]
\* the file an earlier run left; main never reads it, it only overwrites it
StaleFile ==
    [exists |-> TRUE, header |-> TRUE,
     doc |-> [repos |-> << [repo |-> LocalRepo, hooks |-> << [id |-> <<"o">>] >>] >>]]
WrittenFile(doc) == [exists |-> TRUE, header |-> TRUE, doc |-> doc]

MgInit ==
    /\ pc = "start"
    /\ manifest \in Manifests
    /\ configs = <<>>
    /\ i = 0
    /\ merged_repos = <<>>
    /\ local_hooks = <<>>
    /\ merged = [repos |-> <<>>]
    /\ wsConfig = StaleFile
    /\ wsBefore = wsConfig

MgIdle ==
    /\ pc = "idle"
    /\ manifest = [exists |-> FALSE, subtrees |-> <<>>]
    /\ configs = <<>>
    /\ i = 0
    /\ merged_repos = <<>>
    /\ local_hooks = <<>>
    /\ merged = [repos |-> <<>>]
    /\ wsConfig = NoFile
    /\ wsBefore = NoFile

\* index of the first hook scope_hook raises on, 0 if none
FirstRaising(hooks) ==
    IF \E k \in 1..Len(hooks) : ScopeRaises(hooks[k])
    THEN CHOOSE k \in 1..Len(hooks) :
            /\ ScopeRaises(hooks[k])
            /\ \A m \in 1..(k - 1) : ~ScopeRaises(hooks[m])
    ELSE 0

ScopeAll(hooks, subtree, is_local) ==
    [k \in 1..Len(hooks) |-> ScopeAs(hooks[k], subtree, is_local)]

ScopedRepo(repo, subtree) ==
    [repo |-> repo["repo"],
     rev |-> Get(repo, "rev", DefaultRev),
     hooks |-> ScopeAll(HooksOf(repo), subtree, FALSE)]

\* mutant: the KeyError is swallowed and the loop goes on
AfterBlock_Swallow(ok) == "blocks"

\* where control goes after a block: on, or out through the KeyError
AfterBlock(ok) == IF ok THEN "blocks" ELSE "raised"

\* mutant: the local block is put first
AppendLocal_First(repos, hooks) ==
    IF hooks # <<>>
    THEN <<[repo |-> LocalRepo, hooks |-> hooks]>> \o repos
    ELSE repos

\* the trailing `repo: local` block
AppendLocal(repos, hooks) ==
    IF hooks # <<>>
    THEN Append(repos, [repo |-> LocalRepo, hooks |-> hooks])
    ELSE repos

\* merge_configs up to the loop: missing manifest or no subtrees returns {'repos': []}
Start ==
    /\ pc = "start"
    /\ IF ~manifest.exists \/ manifest.subtrees = <<>>
       THEN /\ merged' = [repos |-> <<>>]
            /\ pc' = "returned"
            /\ UNCHANGED i
       ELSE /\ pc' = "subtree"
            /\ i' = 1
            /\ UNCHANGED merged
    /\ UNCHANGED <<manifest, configs, merged_repos, local_hooks, wsConfig, wsBefore>>

\* head of the outer loop: the subtree has a config (load it) or not (continue)
OpenConfig ==
    /\ pc = "subtree"
    /\ i <= Len(manifest.subtrees)
    /\ \E e \in BOOLEAN :
        /\ configs' = Append(configs, [exists |-> e, repos |-> <<>>])
        /\ IF e THEN pc' = "blocks" /\ UNCHANGED i
                ELSE pc' = "subtree" /\ i' = i + 1
    /\ UNCHANGED <<manifest, merged_repos, local_hooks, merged, wsConfig, wsBefore>>

\* one iteration of `for repo in config.get('repos', [])`
ProcessBlock ==
    /\ pc = "blocks"
    /\ BlocksRead < MaxBlocks
    /\ \E repo \in Blocks(MaxHooks - HooksRead) :
        LET subtree_path == manifest.subtrees[i].path
            hooks == HooksOf(repo)
            bad == FirstRaising(hooks)
        IN /\ configs' = [configs EXCEPT ![i].repos = Append(@, repo)]
           /\ IF "repo" \notin DOMAIN repo
              THEN /\ pc' = AfterBlock(FALSE)
                   /\ UNCHANGED <<merged_repos, local_hooks>>
              ELSE IF repo["repo"] = LocalRepo
              THEN /\ local_hooks' = local_hooks \o
                        ScopeAll(SubSeq(hooks, 1, IF bad = 0 THEN Len(hooks) ELSE bad - 1),
                                 subtree_path, TRUE)
                   /\ pc' = AfterBlock(bad = 0)
                   /\ UNCHANGED merged_repos
              ELSE IF bad # 0
              THEN /\ pc' = AfterBlock(FALSE)
                   /\ UNCHANGED <<merged_repos, local_hooks>>
              ELSE /\ merged_repos' = Append(merged_repos, ScopedRepo(repo, subtree_path))
                   /\ pc' = AfterBlock(TRUE)
                   /\ UNCHANGED local_hooks
    /\ UNCHANGED <<manifest, i, merged, wsConfig, wsBefore>>

\* the inner loop is exhausted: next subtree
EndConfig ==
    /\ pc = "blocks"
    /\ pc' = "subtree"
    /\ i' = i + 1
    /\ UNCHANGED <<manifest, configs, merged_repos, local_hooks, merged, wsConfig, wsBefore>>

\* after the loop: one trailing local block if any local hook was collected
Finish ==
    /\ pc = "subtree"
    /\ i > Len(manifest.subtrees)
    /\ merged' = [repos |-> AppendLocal(merged_repos, local_hooks)]
    /\ pc' = "returned"
    /\ UNCHANGED <<manifest, configs, i, merged_repos, local_hooks, wsConfig, wsBefore>>

\* main after merge_configs returned: nothing to write, or write the file
Main ==
    /\ pc = "returned"
    /\ IF merged.repos = <<>>
       THEN UNCHANGED wsConfig
       ELSE wsConfig' = WrittenFile(merged)
    /\ pc' = "done"
    /\ UNCHANGED <<manifest, configs, i, merged_repos, local_hooks, merged, wsBefore>>

MgNext ==
    \/ Start /\ UNCHANGED <<scVars, pyVars>>
    \/ OpenConfig /\ UNCHANGED <<scVars, pyVars>>
    \/ ProcessBlock /\ UNCHANGED <<scVars, pyVars>>
    \/ EndConfig /\ UNCHANGED <<scVars, pyVars>>
    \/ Finish /\ UNCHANGED <<scVars, pyVars>>
    \/ Main /\ UNCHANGED <<scVars, pyVars>>

----------------------------------------------------------------------------
(* sync_pyproject.py *)

MaxDeps == 2
MaxRuns == 2

EmptyDict == [k \in {} |-> <<>>]
Range(s) == { s[k] : k \in 1..Len(s) }

PathP_A == <<"p", "_", "a">>
PathPsA == <<"p", "/", "a">>
PathB == <<"b">>
PkgPA == <<"p", "-", "a">>
PkgZ == <<"z">>
PyPaths == {PathP_A, PathPsA, PathB}

PlaceholderName == <<"w", "o", "r", "k", "s", "p", "a", "c", "e">>
PlaceholderVersion == <<"0", ".", "1", ".", "0">>

get_package_name(path) == Replace(Replace(path, <<"/">>, <<"-">>), <<"_">>, <<"-">>)

PyManifests ==
    { [exists |-> FALSE, subtrees |-> <<>>] } \cup
    { [exists |-> TRUE,
       subtrees |-> [k \in 1..Len(ps) |-> [path |-> ps[k], install |-> fl[k]]]] :
        ps \in UniqueSeqs(PyPaths, MaxSubtrees), fl \in [1..MaxSubtrees -> BOOLEAN] }

DepLists == UNION { [1..k -> {PkgZ, PkgPA}] : k \in 0..MaxDeps }

OldSources == [n \in {PkgPA, PkgZ} |-> [path |-> <<".", "/", "o">>, editable |-> FALSE]]

ProjectOptions ==
    { [name |-> <<"x">>, description |-> <<"d">>] } \cup
    { [name |-> <<"x">>, dependencies |-> d] : d \in DepLists }

UvOptions ==
    { EmptyDict,
      [index |-> <<"i">>],
      [sources |-> OldSources],
      Put([index |-> <<"i">>, sources |-> OldSources], "override-dependencies", <<PkgZ>>),
      Put(EmptyDict, "override-dependencies", <<PkgPA, PkgZ>>) }

ToolOptions ==
    { [black |-> <<"k">>] } \cup
    { [uv |-> u] : u \in UvOptions } \cup
    { [black |-> <<"k">>, uv |-> u] : u \in UvOptions }

WithOpt(d, k, opts) == {d} \cup { Put(d, k, v) : v \in opts }

Docs ==
    UNION { UNION { WithOpt(d2, "tool", ToolOptions) :
                        d2 \in WithOpt(d1, "project", ProjectOptions) } :
                d1 \in WithOpt(EmptyDict, "build", {<<"h">>}) }

PyFiles ==
    { [exists |-> FALSE, doc |-> EmptyDict] } \cup
    { [exists |-> TRUE, doc |-> d] : d \in Docs }

PyInit ==
    /\ py_pc = "ready"
    /\ py_manifest \in PyManifests
    /\ pyproject \in PyFiles
    /\ py_prev = pyproject
    /\ py_runs = 0

PyIdle ==
    /\ py_pc = "idle"
    /\ py_manifest = [exists |-> FALSE, subtrees |-> <<>>]
    /\ pyproject = [exists |-> FALSE, doc |-> EmptyDict]
    /\ py_prev = pyproject
    /\ py_runs = 0

Installable(m) == SelectSeq(m.subtrees, LAMBDA st : st.install)

DepNames(installable) ==
    [k \in 1..Len(installable) |-> get_package_name(installable[k].path)]

\* mutant: every derived name is appended, present or not
AddNew_NoCheck(existing, names) == existing \o names

\* for name in dep_names: if name not in existing: existing.append(name)
RECURSIVE AddNew(_, _)
AddNew(existing, names) ==
    IF names = <<>> THEN existing
    ELSE AddNew(IF Head(names) \in Range(existing)
                THEN existing
                ELSE Append(existing, Head(names)),
                Tail(names))

\* mutant: the project table is always recreated
EnsureProject_Reset(config) ==
    Put(config, "project", [name |-> PlaceholderName, version |-> PlaceholderVersion])

EnsureProject(config) ==
    IF "project" \in DOMAIN config
    THEN config
    ELSE Put(config, "project", [name |-> PlaceholderName, version |-> PlaceholderVersion])

UpdateDependencies(config, dep_names) ==
    Put(config, "project",
        Put(config["project"], "dependencies",
            AddNew(Get(config["project"], "dependencies", <<>>), dep_names)))

EnsureToolUv(config) ==
    LET c1 == IF "tool" \in DOMAIN config THEN config ELSE Put(config, "tool", EmptyDict)
        c2 == IF "uv" \in DOMAIN c1["tool"] THEN c1
              ELSE Put(c1, "tool", Put(c1["tool"], "uv", EmptyDict))
    IN IF "sources" \in DOMAIN c2["tool"]["uv"] THEN c2
       ELSE Put(c2, "tool", Put(c2["tool"], "uv", Put(c2["tool"]["uv"], "sources", EmptyDict)))

SourceOf(st) == [path |-> <<".", "/">> \o st.path, editable |-> TRUE]

\* for st in installable: sources[get_package_name(st.path)] = {path, editable}
RECURSIVE UpsertSources(_, _)
UpsertSources(sources, installable) ==
    IF installable = <<>> THEN sources
    ELSE UpsertSources(Put(sources, get_package_name(Head(installable).path),
                           SourceOf(Head(installable))),
                       Tail(installable))

UpdateUv(config, installable, dep_names) ==
    LET uv == config["tool"]["uv"]
        uv1 == Put(uv, "sources", UpsertSources(uv["sources"], installable))
        uv2 == Put(uv1, "override-dependencies",
                   AddNew(Get(uv1, "override-dependencies", <<>>), dep_names))
    IN Put(config, "tool", Put(config["tool"], "uv", uv2))

Reconcile(config, installable) ==
    LET dep_names == DepNames(installable)
    IN UpdateUv(EnsureToolUv(UpdateDependencies(EnsureProject(config), dep_names)),
                installable, dep_names)

\* one run of sync_pyproject()
SyncPyproject ==
    /\ py_pc \in {"ready", "noop", "written", "raised"}
    /\ py_runs < MaxRuns
    /\ py_runs' = py_runs + 1
    /\ py_prev' = pyproject
    /\ IF ~py_manifest.exists
       THEN \* open(manifest_path) raises FileNotFoundError
            /\ py_pc' = "raised"
            /\ UNCHANGED pyproject
       ELSE IF Installable(py_manifest) = <<>>
       THEN /\ py_pc' = "noop"
            /\ UNCHANGED pyproject
       ELSE /\ pyproject' =
                [exists |-> TRUE,
                 doc |-> Reconcile(IF pyproject.exists THEN pyproject.doc ELSE EmptyDict,
                                   Installable(py_manifest))]
            /\ py_pc' = "written"
    /\ UNCHANGED py_manifest

PyNext == SyncPyproject /\ UNCHANGED <<scVars, mgVars>>

----------------------------------------------------------------------------
(* Specifications *)

\* sync_precommit.py
Init == ScIdle /\ MgInit /\ PyIdle
Next == MgNext
Spec == Init /\ [][Next]_vars

\* scope_hook / scope_local_hook on one hook
InitScope == ScInit /\ MgIdle /\ PyIdle
SpecScope == InitScope /\ [][ScNext]_vars

\* sync_pyproject.py
InitSync == ScIdle /\ MgIdle /\ PyInit
SpecSync == InitSync /\ [][PyNext]_vars

----------------------------------------------------------------------------
(* What the merge read, flattened in reading order *)

RECURSIVE Flatten(_)
Flatten(ss) == IF ss = <<>> THEN <<>> ELSE Head(ss) \o Flatten(Tail(ss))

\* every block read so far, tagged with the subtree whose config holds it
InputBlocks ==
    Flatten([k \in 1..Len(configs) |->
        [b \in 1..Len(configs[k].repos) |->
            [subtree |-> manifest.subtrees[k].path, block |-> configs[k].repos[b]]]])

IsLocalIn(x) == "repo" \in DOMAIN x.block /\ x.block["repo"] = LocalRepo
IsRemoteIn(x) == "repo" \in DOMAIN x.block /\ x.block["repo"] # LocalRepo
RemoteIn == SelectSeq(InputBlocks, IsRemoteIn)
LocalIn == SelectSeq(InputBlocks, IsLocalIn)

\* the hooks of a sequence of tagged blocks, tagged with their subtree
InputHooks(tagged) ==
    Flatten([k \in 1..Len(tagged) |->
        LET t == tagged[k]
            hs == HooksOf(t.block)
        IN [m \in 1..Len(hs) |-> [subtree |-> t.subtree, hook |-> hs[m]]]])

OutputHooks(repos) == Flatten([k \in 1..Len(repos) |-> repos[k].hooks])

MalformedRead ==
    \E k \in 1..Len(configs) :
        \E b \in 1..Len(configs[k].repos) :
            LET block == configs[k].repos[b]
            IN \/ "repo" \notin DOMAIN block
               \/ \E m \in 1..Len(HooksOf(block)) : "id" \notin DOMAIN HooksOf(block)[m]

Returned == pc \in {"returned", "done"}

----------------------------------------------------------------------------
(* Claims about sync_precommit.py, checked under Spec *)

\* C2: in the document merge_configs returns, the hooks of the `repo: local`
\* block have pairwise distinct ids (here already for configs in which no
\* subtree repeats an id among its own local hooks).
C2_LocalIdsDistinct ==
    (/\ Returned
     /\ \A a, b \in 1..Len(InputHooks(LocalIn)) :
            (/\ a # b
             /\ InputHooks(LocalIn)[a].subtree = InputHooks(LocalIn)[b].subtree)
            => InputHooks(LocalIn)[a].hook["id"] # InputHooks(LocalIn)[b].hook["id"])
    => \A k \in 1..Len(merged.repos) :
          merged.repos[k].repo = LocalRepo =>
              \A a, b \in 1..Len(merged.repos[k].hooks) :
                  a # b => merged.repos[k].hooks[a]["id"] # merged.repos[k].hooks[b]["id"]

\* C3: every hook of the returned document has `files` anchored to its owning
\* subtree: ^<subtree>/(<original>) when the original files was set and
\* non-empty, exactly ^<subtree>/ when it was absent or empty.
C3_FilesAnchored ==
    Returned =>
        LET in == InputHooks(RemoteIn) \o InputHooks(LocalIn)
            out == OutputHooks(merged.repos)
        IN /\ Len(out) = Len(in)
           /\ \A k \in 1..Len(out) :
                /\ "files" \in DOMAIN out[k]
                /\ StartsWith(out[k]["files"], <<"^">> \o in[k].subtree \o <<"/">>)
                /\ IF "files" \in DOMAIN in[k].hook /\ Len(in[k].hook["files"]) > 0
                   THEN out[k]["files"] =
                            <<"^">> \o in[k].subtree \o <<"/">> \o <<"(">>
                                \o in[k].hook["files"] \o <<")">>
                   ELSE out[k]["files"] = <<"^">> \o in[k].subtree \o <<"/">>

C3_Witness ==
    /\ pc = "done"
    /\ \E a, b \in 1..Len(OutputHooks(merged.repos)) :
        /\ OutputHooks(merged.repos)[a]["files"] = <<"^", "a", "/">>
        /\ OutputHooks(merged.repos)[b]["files"] = <<"^", "a", "-", "b", "/", "(", "x", ")">>

\* C4: the returned document holds one remote block per remote block read,
\* in subtree-then-block order and never consolidated, followed by exactly one
\* `repo: local` block if and only if a local hook was collected.
C4_BlockOrder ==
    Returned =>
        LET rin == RemoteIn
            out == merged.repos
            nr == Len(rin)
            nl == Len(InputHooks(LocalIn))
        IN /\ Len(out) = nr + (IF nl > 0 THEN 1 ELSE 0)
           /\ \A k \in 1..nr :
                LET o == out[k]
                    r == rin[k]
                    hs == HooksOf(r.block)
                IN /\ o.repo = r.block["repo"]
                   /\ o.repo # LocalRepo
                   /\ o.rev = (IF "rev" \in DOMAIN r.block THEN r.block["rev"] ELSE DefaultRev)
                   /\ Len(o.hooks) = Len(hs)
                   /\ \A m \in 1..Len(hs) :
                        /\ o.hooks[m]["id"] = hs[m]["id"]
                        /\ o.hooks[m]["alias"] = r.subtree \o <<"-">> \o hs[m]["id"]
           /\ nl > 0 =>
                /\ out[nr + 1].repo = LocalRepo
                /\ Len(out[nr + 1].hooks) = nl
           /\ Cardinality({k \in 1..Len(out) : out[k].repo = LocalRepo}) <= 1

\* a local block was read before a remote one; the output ends with the local one
C4_Witness ==
    /\ pc = "done"
    /\ Len(merged.repos) = 2
    /\ merged.repos[1].repo = RemoteR
    /\ merged.repos[2].repo = LocalRepo
    /\ Len(InputBlocks) = 2
    /\ IsLocalIn(InputBlocks[1])

\* C10: once a block without `repo` or a hook without `id` has been read, the
\* run has failed and the workspace hook config is as it was before the run.
C10_NoPartialOutput ==
    MalformedRead => (pc = "raised" /\ wsConfig = wsBefore)

\* a malformed hook read after a well-formed block of an earlier subtree
C10_Witness ==
    /\ pc = "raised"
    /\ Len(InputBlocks) = 2
    /\ InputBlocks[1].subtree # InputBlocks[2].subtree
    /\ merged_repos # <<>>
    /\ MalformedRead
    /\ wsBefore = StaleFile

----------------------------------------------------------------------------
(* Claims about scope_hook / scope_local_hook, checked under SpecScope *)

\* C1: scoping an already scoped hook again under the same subtree with the
\* same local/remote flag leaves files, exclude, id and entry as they were
\* after the first pass.
C1_ScopeIdempotent ==
    sc_pc = "twice" =>
        \A f \in {"files", "exclude", "id", "entry"} :
            f \in DOMAIN sc_once => sc_twice[f] = sc_once[f]

\* C8: the display name of a scoped hook is "[<subtree>] <original name>"
\* when the input hook has a name and "[<subtree>] <original id>" otherwise.
C8_DisplayName ==
    sc_pc \in {"once", "twice"} =>
        sc_once["name"] =
            <<"[">> \o sc_subtree \o <<"]", " ">> \o
                (IF "name" \in DOMAIN sc_hook THEN sc_hook["name"] ELSE sc_hook["id"])

----------------------------------------------------------------------------
(* Claims about sync_pyproject.py, checked under SpecSync *)

Deps(file) ==
    IF "project" \in DOMAIN file.doc /\ "dependencies" \in DOMAIN file.doc["project"]
    THEN file.doc["project"]["dependencies"]
    ELSE <<>>

DerivedNames == { get_package_name(st.path) : st \in Range(Installable(py_manifest)) }

\* every leaf of the document outside project.dependencies, tool.uv.sources
\* and tool.uv.override-dependencies, as <<path, value>>
OtherContent(doc) ==
    LET project == Get(doc, "project", EmptyDict)
        tool == Get(doc, "tool", EmptyDict)
        uv == Get(tool, "uv", EmptyDict)
    IN { <<<<k>>, doc[k]>> : k \in DOMAIN doc \ {"project", "tool"} }
       \cup { <<<<"project", k>>, project[k]>> : k \in DOMAIN project \ {"dependencies"} }
       \cup { <<<<"tool", k>>, tool[k]>> : k \in DOMAIN tool \ {"uv"} }
       \cup { <<<<"tool", "uv", k>>, uv[k]>> :
                k \in DOMAIN uv \ {"sources", "override-dependencies"} }

Placeholders ==
    { <<<<"project", "name">>, PlaceholderName>>,
      <<<<"project", "version">>, PlaceholderVersion>> }

\* C5: after a run that writes, project.dependencies is the list it was
\* before followed by the derived names that were missing, each once; a second
\* run with the same installable set leaves the list as the first run left it.
C5_DependencyUnion ==
    py_pc = "written" =>
        LET P == Deps(py_prev)
            D == Deps(pyproject)
        IN /\ Len(D) >= Len(P)
           /\ SubSeq(D, 1, Len(P)) = P
           /\ \A a \in (Len(P) + 1)..Len(D) :
                /\ D[a] \notin Range(P)
                /\ D[a] \in DerivedNames
                /\ \A b \in (Len(P) + 1)..Len(D) : a # b => D[a] # D[b]
           /\ DerivedNames \subseteq Range(D)
           /\ py_runs >= 2 => D = P

\* the first run appended "b" after the stale "z" and the present "p-a";
\* the second run left the list alone
C5_Witness ==
    /\ py_pc = "written"
    /\ py_runs = 2
    /\ Deps(pyproject) = <<PkgZ, PkgPA, PathB>>
    /\ Deps(py_prev) = <<PkgZ, PkgPA, PathB>>

\* C6: when two distinct installable subtrees derive the same package name,
\* the run is rejected and no manifest is written.
C6_CollisionRejected ==
    (/\ py_runs >= 1
     /\ \E a, b \in 1..Len(Installable(py_manifest)) :
            /\ a # b
            /\ get_package_name(Installable(py_manifest)[a].path)
                 = get_package_name(Installable(py_manifest)[b].path))
    => (py_pc = "raised" /\ pyproject = py_prev)

C9_MissingInputNoop ==
    (/\ py_runs >= 1
     /\ \/ ~py_manifest.exists
        \/ py_manifest.subtrees = <<>>
        \/ Installable(py_manifest) = <<>>)
    => (py_pc = "noop" /\ pyproject = py_prev)

====
